---- MODULE Spec2Model ----
(***************************************************************************)
(* Model of src/src/utils/fraudDetection.ts: the risk scorer               *)
(* (advancedFraudDetection), the batch runner (processBatchTransactions),  *)
(* the velocity estimator (calculateVelocityRisk) and the geo-anomaly      *)
(* estimator (checkGeographicAnomaly).                                     *)
(*                                                                         *)
(* Numbers.  Scores are held in units of 1/10000 (0.1 is 1000, 1 is        *)
(* 10000), so that every weight, every threshold and the jitter            *)
(* (Math.random() - 0.5) * 0.1 of a random draw given in thousandths are   *)
(* integers.  Arithmetic is exact decimal arithmetic; the binary rounding  *)
(* of IEEE doubles is not modelled.  NaN is the distinguished value NaN:   *)
(* every comparison with it is false and every sum with it is NaN.         *)
(* Strings that the code inspects character by character are sequences of  *)
(* one-character strings.  Coordinates are in tenths of a degree, times in *)
(* milliseconds, distances in whole kilometres.                            *)
(***************************************************************************)
EXTENDS Integers, Sequences, FiniteSets, TLC

VARIABLES
    transaction,    \* the Transaction handed to advancedFraudDetection
    call,           \* the last call of advancedFraudDetection: its seams, locals and result
    transactions,   \* the list handed to processBatchTransactions
    batch,          \* the last call of processBatchTransactions: seams of each element, result
    history,        \* the list handed to calculateVelocityRisk / checkGeographicAnomaly
    velocity,       \* the last call of calculateVelocityRisk
    geo,            \* the last call of checkGeographicAnomaly
    db,             \* the rows of the table public.transactions, in insertion order
    adminDashboard, \* the component state of each open AdminDashboard
    auditLogs       \* the rows of the table public.audit_logs, in insertion order

vars == <<transaction, call, transactions, batch, history, velocity, geo,
          db, adminDashboard, auditLogs>>

\* the state of the library functions and the state of the application around them
scorerVars == <<transaction, call, transactions, batch, history, velocity, geo>>
workflowVars == <<db, adminDashboard, auditLogs>>

None == [done |-> FALSE]

\* the administrators with a dashboard open
Admins == {"admin1", "admin2"}

\* the value null of selectedTransaction
null == [null |-> TRUE]

\* useState defaults of AdminDashboard; toast is the last message shown
NoDashboard ==
    [transactions |-> <<>>,
     auditLogs |-> <<>>,
     stats |-> [total |-> 0, flagged |-> 0, approved |-> 0, rejected |-> 0, pending |-> 0],
     selectedTransaction |-> null,
     reviewReason |-> <<>>,
     isLoading |-> TRUE,
     toast |-> ""]

\* empty tables and freshly mounted dashboards
InitWorkflowVars ==
    /\ db = <<>>
    /\ adminDashboard = [a \in Admins |-> NoDashboard]
    /\ auditLogs = <<>>

(***************************************************************************)
(* JavaScript values                                                       *)
(***************************************************************************)
\* The value NaN (also standing for a non-numeric string about to be coerced
\* by Math.min): outside every range the scores can take.
NaN == 0 - 1000000

IsNaN(x) == x = NaN

\* a + b on numbers; NaN (or a non-numeric string operand) makes the result NaN
Plus(a, b) == IF IsNaN(a) \/ IsNaN(b) THEN NaN ELSE a + b

\* a > b: false when either side is NaN
Gt(a, b) == ~IsNaN(a) /\ ~IsNaN(b) /\ a > b

Min(a, b) == IF a < b THEN a ELSE b
Max(a, b) == IF a > b THEN a ELSE b

\* Math.max(0, Math.min(1, x)) in units of 1/10000
Clamp01(x) == IF IsNaN(x) THEN NaN ELSE Max(0, Min(10000, x))

\* Math.round(x * 100) / 100 in units of 1/10000, x >= 0 (half rounds up)
Round2(x) == IF IsNaN(x) THEN NaN ELSE ((x + 50) \div 100) * 100

\* the truthiness of the optional numeric field f of record r: an absent
\* field (undefined) and 0 are falsy
Truthy(r, f) == f \in DOMAIN r /\ r[f] # 0

Upper == {"A","B","C","D","E","F","G","H","I","J","K","L","M",
          "N","O","P","Q","R","S","T","U","V","W","X","Y","Z"}
Whitespace == {" ", "\t", "\n", "\r"}
Digit == {"0","1","2","3","4","5","6","7","8","9"}
LineTerminator == {"\n", "\r"}

\* /^[A-Z\s]+$/
IsUpperCaseName(s) == Len(s) >= 1 /\ \A i \in 1..Len(s) : s[i] \in Upper \cup Whitespace

\* /^(.)\1{8,}$/ : one character (any but a line terminator) and 8 or more copies of it
IsRepeatedChar(s) ==
    /\ Len(s) >= 9
    /\ s[1] \notin LineTerminator
    /\ \A i \in 1..Len(s) : s[i] = s[1]

\* /^[6-9]\d{9}$/
IsMobileNumber(s) ==
    /\ Len(s) = 10
    /\ s[1] \in {"6","7","8","9"}
    /\ \A i \in 2..10 : s[i] \in Digit

\* String.prototype.substring(0, n)
Substring0(s, n) == SubSeq(s, 1, Min(n, Len(s)))

(***************************************************************************)
(* advancedFraudDetection                                                  *)
(***************************************************************************)
\* the literal table of lines 36-40
channelRisk == [RTGS |-> 1000, NEFT |-> 1500, UPI |-> 2000]

\* the members every object literal inherits from Object.prototype: reading
\* channelRisk[name] for one of them yields a function or an object, not undefined
ObjectPrototypeKeys ==
    {"constructor", "toString", "valueOf", "hasOwnProperty", "__proto__"}

\* channelRisk[transaction.channel as keyof typeof channelRisk] || 0.25 :
\* an own key gives its weight, an inherited member is truthy and not a
\* number (riskScore += it makes riskScore a non-numeric string, NaN at line
\* 109), anything else is undefined and gives the default
channelWeight(channel) ==
    IF channel \in DOMAIN channelRisk THEN channelRisk[channel]
    ELSE IF channel \in ObjectPrototypeKeys THEN NaN
    ELSE 2500

\* the amount tiers with each threshold tested by >=
amountRiskAtLeast(amount) ==
    IF amount >= 1000000 THEN 4000
    ELSE IF amount >= 500000 THEN 3000
    ELSE IF amount >= 100000 THEN 2000
    ELSE IF amount >= 50000 THEN 1000
    ELSE 0

\* lines 30-33
amountRisk(amount) ==
    IF amount > 1000000 THEN 4000
    ELSE IF amount > 500000 THEN 3000
    ELSE IF amount > 100000 THEN 2000
    ELSE IF amount > 50000 THEN 1000
    ELSE 0

\* lines 44-46
timeRisk(hour) ==
    (IF hour < 6 \/ hour > 22 THEN 2000 ELSE 0)
    + (IF hour >= 22 \/ hour <= 2 THEN 1000 ELSE 0)

\* lines 49-50
weekendRisk(dayOfWeek) == IF dayOfWeek = 0 \/ dayOfWeek = 6 THEN 1000 ELSE 0

\* lines 53-54
nameAnomaly(name) ==
    (IF Len(name) < 3 THEN 3000 ELSE 0)
    - (IF IsUpperCaseName(name) THEN 1000 ELSE 0)

\* line 57
repeatedDigitAnomaly(account) == IF IsRepeatedChar(account) THEN 4000 ELSE 0

\* line 58
sameAccountRisk(tx) ==
    IF tx.sender_account = tx.beneficiary_account THEN 8000 ELSE 0

suspiciousBanks == {<<"T","E","S","T">>, <<"F","A","K","E">>, <<"D","E","M","O">>}

\* lines 61-63
ifscRisk(ifsc) == IF Substring0(ifsc, 4) \in suspiciousBanks THEN 5000 ELSE 0

\* line 66
phoneAnomaly(phone) == IF ~IsMobileNumber(phone) THEN 3000 ELSE 0

\* lines 69-70
roundAmountAnomaly(amount) ==
    (IF amount % 10000 = 0 /\ amount > 100000 THEN 2000 ELSE 0)
    + (IF amount % 100000 = 0 /\ amount > 500000 THEN 3000 ELSE 0)

\* line 73: both coordinates are truthy
hasLocation(tx) == Truthy(tx, "sender_latitude") /\ Truthy(tx, "sender_longitude")

\* lines 73-90, the risk part (coordinates in tenths of a degree)
locationRisk(tx) ==
    IF hasLocation(tx)
    THEN LET lat == tx.sender_latitude
             lng == tx.sender_longitude
         IN  IF lat < 60 \/ lat > 370 \/ lng < 680 \/ lng > 970 THEN 3000 ELSE 0
    ELSE 1000

\* lines 73-90, the anomaly part
locationAnomaly(tx) ==
    IF hasLocation(tx)
    THEN IF tx.sender_latitude % 10 = 0 /\ tx.sender_longitude % 10 = 0 THEN 2000 ELSE 0
    ELSE 0

\* lines 96-98
upiAmountRisk(tx) == IF tx.channel = "UPI" /\ tx.amount > 50000 THEN 2000 ELSE 0

\* lines 100-102
rtgsAmountAnomaly(tx) == IF tx.channel = "RTGS" /\ tx.amount < 300000 THEN 1000 ELSE 0

\* (Math.random() - 0.5) * 0.1 for a draw given in thousandths, 0 <= random < 1000
jitter(random) == random - 500

\* riskScore before the clamp: lines 25-105
rawRiskScore(tx, hour, dayOfWeek, random1) ==
    Plus(amountRisk(tx.amount),
    Plus(channelWeight(tx.channel),
         timeRisk(hour) + weekendRisk(dayOfWeek) + sameAccountRisk(tx)
         + ifscRisk(tx.beneficiary_ifsc) + locationRisk(tx) + upiAmountRisk(tx)
         + jitter(random1)))

\* anomalyScore before the clamp: lines 26-106
rawAnomalyScore(tx, random2) ==
    nameAnomaly(tx.beneficiary_name) + repeatedDigitAnomaly(tx.beneficiary_account)
    + phoneAnomaly(tx.beneficiary_phone) + roundAmountAnomaly(tx.amount)
    + locationAnomaly(tx) + rtgsAmountAnomaly(tx) + jitter(random2)

\* lines 109-110
normalize(x) == Clamp01(x)

\* riskLevelOf comparing the two-decimal values that are returned
riskLevelOfRounded(riskScore, anomalyScore) ==
    IF Gt(Round2(riskScore), 7000) \/ Gt(Round2(anomalyScore), 8000) THEN "high"
    ELSE IF Gt(Round2(riskScore), 4000) \/ Gt(Round2(anomalyScore), 5000) THEN "medium"
    ELSE "low"

\* riskLevelOf with the medium thresholds tested by >=
riskLevelOfMediumAtLeast(riskScore, anomalyScore) ==
    IF Gt(riskScore, 7000) \/ Gt(anomalyScore, 8000) THEN "high"
    ELSE IF (~IsNaN(riskScore) /\ riskScore >= 4000)
            \/ (~IsNaN(anomalyScore) /\ anomalyScore >= 5000) THEN "medium"
    ELSE "low"

\* lines 116-125: riskLevel
riskLevelOf(riskScore, anomalyScore) ==
    IF Gt(riskScore, 7000) \/ Gt(anomalyScore, 8000) THEN "high"
    ELSE IF Gt(riskScore, 4000) \/ Gt(anomalyScore, 5000) THEN "medium"
    ELSE "low"

\* requiresReviewOf with the low-risk test amount >= 50000
requiresReviewOfAtLeast(riskScore, anomalyScore, amount) ==
    IF Gt(riskScore, 7000) \/ Gt(anomalyScore, 8000) THEN TRUE
    ELSE IF Gt(riskScore, 4000) \/ Gt(anomalyScore, 5000) THEN TRUE
    ELSE amount >= 50000

\* lines 114-125: requiresReview
requiresReviewOf(riskScore, anomalyScore, amount) ==
    IF Gt(riskScore, 7000) \/ Gt(anomalyScore, 8000) THEN TRUE
    ELSE IF Gt(riskScore, 4000) \/ Gt(anomalyScore, 5000) THEN TRUE
    ELSE amount > 50000

\* fraudProbabilityOf with equal weights on the two scores
fraudProbabilityOfEqualWeights(riskScore, anomalyScore) ==
    IF IsNaN(riskScore) \/ IsNaN(anomalyScore) THEN NaN
    ELSE ((5 * riskScore + 5 * anomalyScore + 500) \div 1000) * 100

\* line 128 then line 134: Math.round((riskScore*0.6 + anomalyScore*0.4) * 100) / 100
fraudProbabilityOf(riskScore, anomalyScore) ==
    IF IsNaN(riskScore) \/ IsNaN(anomalyScore) THEN NaN
    ELSE ((6 * riskScore + 4 * anomalyScore + 500) \div 1000) * 100

\* lines 24-137.  The clock (hour, dayOfWeek) and the two Math.random() draws
\* are the seams of the call; riskScore and anomalyScore are the locals after
\* lines 109-110, each computed once.
advancedFraudDetection(tx, hour, dayOfWeek, random1, random2) ==
    CHOOSE analysis \in
        { [risk_score        |-> Round2(riskScore),
           anomaly_score     |-> Round2(anomalyScore),
           risk_level        |-> riskLevelOf(riskScore, anomalyScore),
           fraud_probability |-> fraudProbabilityOf(riskScore, anomalyScore),
           requires_review   |-> requiresReviewOf(riskScore, anomalyScore, tx.amount)] :
             riskScore    \in {normalize(rawRiskScore(tx, hour, dayOfWeek, random1))},
             anomalyScore \in {normalize(rawAnomalyScore(tx, random2))} } : TRUE

(***************************************************************************)
(* Inputs of the scorer                                                    *)
(***************************************************************************)
\* { ...a, ...b } : the fields of both, those of b winning
Merge(a, b) == b @@ a

Amounts == {40000, 50000, 50001, 100000, 120000, 500000, 600000, 1000000, 1500000}

Channels == {"RTGS", "NEFT", "UPI", "IMPS", "constructor"}

Hours == {0, 2, 3, 5, 6, 12, 21, 22, 23}

Days == {0, 3, 6}

\* Math.random() in thousandths: the least draw, one just above the middle, the greatest
Randoms == {0, 540, 999}

AcctPlain    == <<"1","2","3","4","5","6","7","8","9">>
AcctOther    == <<"9","8","7","6","5","4","3","2","1">>
AcctRepeated == <<"1","1","1","1","1","1","1","1","1">>
AcctLetters  == <<"A","A","A","A","A","A","A","A","A">>
PhoneMobile  == <<"9","8","7","6","5","4","3","2","1","0">>
PhoneOther   == <<"1","2","3","4","5","6","7","8","9","0">>
IfscBank     == <<"H","D","F","C","0","0","0","1","2","3","4">>
IfscTest     == <<"T","E","S","T","0","0","0","1","2","3","4">>
IfscDemo     == <<"D","E","M","O","0","0","0","1","2","3","4">>
NameMixed    == <<"R","a","j"," ","K">>
NameUpper    == <<"R","A","J"," ","K">>
NameShort    == <<"A","B">>
NameEmpty    == <<>>

Beneficiary(name, account, phone, ifsc, sender) ==
    [beneficiary_name |-> name, beneficiary_account |-> account,
     beneficiary_phone |-> phone, beneficiary_ifsc |-> ifsc, sender_account |-> sender]

Profiles ==
    { Beneficiary(NameMixed, AcctPlain,    PhoneMobile, IfscBank, AcctOther),
      Beneficiary(NameUpper, AcctPlain,    PhoneMobile, IfscBank, AcctOther),
      Beneficiary(NameShort, AcctRepeated, PhoneOther,  IfscTest, AcctOther),
      Beneficiary(NameMixed, AcctPlain,    PhoneMobile, IfscBank, AcctPlain),
      Beneficiary(NameUpper, AcctRepeated, PhoneMobile, IfscBank, AcctRepeated),
      Beneficiary(NameEmpty, AcctPlain,    PhoneOther,  IfscBank, AcctOther),
      Beneficiary(NameMixed, AcctRepeated, PhoneMobile, IfscBank, AcctOther),
      Beneficiary(NameMixed, AcctPlain,    PhoneMobile, IfscDemo, AcctOther),
      Beneficiary(NameMixed, AcctLetters,  PhoneMobile, IfscBank, AcctOther) }

\* no coordinates; inside the box, fractional; inside the box, whole degrees;
\* outside the box; on the equator (latitude 0)
Locations ==
    { <<>>,
      [sender_latitude |-> 286, sender_longitude |-> 772],
      [sender_latitude |-> 280, sender_longitude |-> 770],
      [sender_latitude |-> 515, sender_longitude |-> -1],
      [sender_latitude |-> 0,   sender_longitude |-> 770] }

Tx(amount, channel, profile, location) ==
    Merge(Merge([amount |-> amount, channel |-> channel], profile), location)

\* every amount on every channel for an ordinary beneficiary and for a
\* self-transfer, and every beneficiary at every location for a small and a
\* large amount on the cheapest and the dearest channel of the table
TxPool ==
    { Tx(a, c, p, l) :
        a \in Amounts, c \in Channels,
        p \in { Beneficiary(NameMixed, AcctPlain, PhoneMobile, IfscBank, AcctOther),
                Beneficiary(NameMixed, AcctPlain, PhoneMobile, IfscBank, AcctPlain) },
        l \in { <<>>, [sender_latitude |-> 286, sender_longitude |-> 772] } }
    \cup
    { Tx(a, c, p, l) :
        a \in {40000, 600000}, c \in {"RTGS", "UPI"}, p \in Profiles, l \in Locations }

(***************************************************************************)
(* The scorer as a state machine: one call on the transaction at hand      *)
(***************************************************************************)
InitScore ==
    /\ transaction \in TxPool
    /\ call = None
    /\ transactions = <<>>
    /\ batch = None
    /\ history = <<>>
    /\ velocity = None
    /\ geo = None
    /\ InitWorkflowVars

\* advancedFraudDetection(transaction) with the clock reading and the two
\* random draws it consumes; riskScore and anomalyScore are the locals after
\* lines 109-110
Score ==
    \E hour \in Hours, dayOfWeek \in Days, random1 \in Randoms, random2 \in Randoms :
        /\ ~call.done
        /\ call' = [done |-> TRUE,
                    hour |-> hour, dayOfWeek |-> dayOfWeek,
                    random1 |-> random1, random2 |-> random2,
                    riskScore |-> normalize(rawRiskScore(transaction, hour, dayOfWeek, random1)),
                    anomalyScore |-> normalize(rawAnomalyScore(transaction, random2)),
                    result |-> advancedFraudDetection(transaction, hour, dayOfWeek,
                                                      random1, random2)]
        /\ UNCHANGED <<transaction, transactions, batch, history, velocity, geo, db, adminDashboard, auditLogs>>

NextScore == Score

SpecScore == InitScore /\ [][NextScore]_vars

(***************************************************************************)
(* processBatchTransactions                                                *)
(***************************************************************************)
\* the analysis of one element under the seams its call consumes
analyse(tx, seam) ==
    advancedFraudDetection(tx, seam.hour, seam.dayOfWeek, seam.random1, seam.random2)

\* a map whose callback analyses the first element of the list for every element
processBatchTransactionsFirst(txs, seams) ==
    [i \in 1..Len(txs) |-> Merge(txs[i], analyse(txs[1], seams[i]))]

\* lines 140-145: transactions.map(tx => ({ ...tx, ...advancedFraudDetection(tx) }));
\* seams[i] is the clock reading and the pair of draws of the i-th call
processBatchTransactions(txs, seams) ==
    [i \in 1..Len(txs) |-> Merge(txs[i], analyse(txs[i], seams[i]))]

MaxBatch == 2

BatchPool ==
    { Tx(40000, "NEFT", Beneficiary(NameMixed, AcctPlain, PhoneMobile, IfscBank, AcctOther), <<>>),
      Tx(600000, "RTGS", Beneficiary(NameUpper, AcctPlain, PhoneMobile, IfscBank, AcctOther), <<>>),
      Tx(1500000, "UPI", Beneficiary(NameShort, AcctRepeated, PhoneOther, IfscTest, AcctOther),
         [sender_latitude |-> 515, sender_longitude |-> -1]),
      Tx(50001, "IMPS", Beneficiary(NameMixed, AcctPlain, PhoneMobile, IfscBank, AcctPlain),
         [sender_latitude |-> 280, sender_longitude |-> 770]),
      Tx(120000, "constructor", Beneficiary(NameMixed, AcctPlain, PhoneMobile, IfscBank, AcctOther),
         [sender_latitude |-> 286, sender_longitude |-> 772]) }

BatchSeams ==
    { [hour |-> 12, dayOfWeek |-> 3, random1 |-> 540, random2 |-> 540],
      [hour |-> 23, dayOfWeek |-> 6, random1 |-> 0, random2 |-> 999] }

SeqsUpTo(S, n) == UNION { [1..k -> S] : k \in 0..n }

InitBatch ==
    /\ transaction = <<>>
    /\ call = None
    /\ transactions \in SeqsUpTo(BatchPool, MaxBatch)
    /\ batch = None
    /\ history = <<>>
    /\ velocity = None
    /\ geo = None
    /\ InitWorkflowVars

\* a callback that writes the analysis into the element it is given
\* (Object.assign(tx, advancedFraudDetection(tx))) instead of spreading both
\* into a new object
ProcessBatchAssign ==
    \E seams \in [1..Len(transactions) -> BatchSeams] :
        /\ ~batch.done
        /\ batch' = [done |-> TRUE, seams |-> seams,
                     result |-> processBatchTransactions(transactions, seams)]
        /\ transactions' = processBatchTransactions(transactions, seams)
        /\ UNCHANGED <<transaction, call, history, velocity, geo, db, adminDashboard, auditLogs>>

\* processBatchTransactions(transactions)
ProcessBatch ==
    \E seams \in [1..Len(transactions) -> BatchSeams] :
        /\ ~batch.done
        /\ batch' = [done |-> TRUE, seams |-> seams,
                     result |-> processBatchTransactions(transactions, seams)]
        /\ UNCHANGED <<transaction, call, transactions, history, velocity, geo, db, adminDashboard, auditLogs>>

NextBatch == ProcessBatch

SpecBatch == InitBatch /\ [][NextBatch]_vars

(***************************************************************************)
(* calculateVelocityRisk                                                   *)
(* Its result is held in units of 1/10000000 (0.1 is 1000000), so that     *)
(* totalAmount / 10000000 is an integer for whole amounts.                 *)
(***************************************************************************)
HourMs == 60 * 60 * 1000

RECURSIVE SumAmounts(_)
\* reduce((sum, tx) => sum + tx.amount, 0)
SumAmounts(txs) ==
    IF txs = <<>> THEN 0 ELSE txs[1].amount + SumAmounts(Tail(txs))

\* new Date(tx.created_at || now).getTime(): the instant of creation, the
\* current instant when created_at is absent
\* txTime with an absent created_at read as the epoch (new Date(0))
txTimeEpoch(tx, now) == IF "created_at" \in DOMAIN tx THEN tx.created_at ELSE 0

txTime(tx, now) == IF "created_at" \in DOMAIN tx THEN tx.created_at ELSE now

\* lines 152-155
recentTransactions(txs, timeWindowHours, now) ==
    LET timeWindow == timeWindowHours * HourMs
        InWindow(tx) == now - txTime(tx, now) < timeWindow
    IN  SelectSeq(txs, InWindow)

\* lines 160-165 with the summed-amount rule tried before the count rule
velocityOfSumFirst(transactionCount, totalAmount) ==
    IF totalAmount > 5000000 THEN 7000000
    ELSE IF transactionCount > 10 THEN 8000000
    ELSE IF transactionCount > 5 /\ totalAmount > 1000000 THEN 6000000
    ELSE Min(5000000, transactionCount * 1000000 + totalAmount)

\* lines 160-165 without the cap of the fallback
velocityOfUncapped(transactionCount, totalAmount) ==
    IF transactionCount > 10 THEN 8000000
    ELSE IF totalAmount > 5000000 THEN 7000000
    ELSE IF transactionCount > 5 /\ totalAmount > 1000000 THEN 6000000
    ELSE transactionCount * 1000000 + totalAmount

\* lines 160-165 with the 0.6 rule tried before the 0.7 rule
velocityOfCountAndSumFirst(transactionCount, totalAmount) ==
    IF transactionCount > 10 THEN 8000000
    ELSE IF transactionCount > 5 /\ totalAmount > 1000000 THEN 6000000
    ELSE IF totalAmount > 5000000 THEN 7000000
    ELSE Min(5000000, transactionCount * 1000000 + totalAmount)

\* lines 160-165 with the results of the 0.7 rule and the 0.6 rule exchanged
velocityOfExchanged(transactionCount, totalAmount) ==
    IF transactionCount > 10 THEN 8000000
    ELSE IF totalAmount > 5000000 THEN 6000000
    ELSE IF transactionCount > 5 /\ totalAmount > 1000000 THEN 7000000
    ELSE Min(5000000, transactionCount * 1000000 + totalAmount)

\* lines 160-165
velocityOf(transactionCount, totalAmount) ==
    IF transactionCount > 10 THEN 8000000
    ELSE IF totalAmount > 5000000 THEN 7000000
    ELSE IF transactionCount > 5 /\ totalAmount > 1000000 THEN 6000000
    ELSE Min(5000000, transactionCount * 1000000 + totalAmount)

\* lines 148-166; now is the reading of new Date() at line 149
calculateVelocityRisk(txs, timeWindowHours, now) ==
    LET recent == recentTransactions(txs, timeWindowHours, now)
    IN  velocityOf(Len(recent), SumAmounts(recent))

\* the current instant of the calls that are modelled
NowMs == 100 * HourMs

\* the default of timeWindowHours (line 148), one hour, and no window at all
Windows == {0, 1, 24}

\* The entries a history is made of, in the order of their creation: older
\* than 24 hours, exactly 24 hours old, a millisecond inside the 24 hours,
\* exactly one hour old, without created_at, dated one hour ahead of the clock
VelocityPool ==
    << [amount |-> 600000,  created_at |-> NowMs - 25 * HourMs],
       [amount |-> 5000001, created_at |-> NowMs - 24 * HourMs],
       [amount |-> 1000,    created_at |-> NowMs - 24 * HourMs + 1],
       [amount |-> 600000,  created_at |-> NowMs - HourMs],
       [amount |-> 1000],
       [amount |-> 5000001, created_at |-> NowMs + HourMs] >>

MaxHistory == 11

PoolIndex(tx) == CHOOSE i \in 1..Len(VelocityPool) : VelocityPool[i] = tx

InitVelocity ==
    /\ transaction = <<>>
    /\ call = None
    /\ transactions = <<>>
    /\ batch = None
    /\ history = <<>>
    /\ velocity = None
    /\ geo = None
    /\ InitWorkflowVars

\* The caller records one more transaction.  Histories are kept in the order
\* of VelocityPool: calculateVelocityRisk filters, counts and sums, so every
\* history is covered by the one listing its entries in that order.
RecordTransaction ==
    \E k \in 1..Len(VelocityPool) :
        /\ Len(history) < MaxHistory
        /\ history # <<>> => PoolIndex(history[Len(history)]) <= k
        /\ history' = Append(history, VelocityPool[k])
        /\ velocity' = None
        /\ UNCHANGED <<transaction, call, transactions, batch, geo, db, adminDashboard, auditLogs>>

\* calculateVelocityRisk(history, timeWindowHours)
Velocity ==
    \E timeWindowHours \in Windows :
        /\ ~velocity.done
        /\ velocity' = [done |-> TRUE, timeWindowHours |-> timeWindowHours, now |-> NowMs,
                        recent |-> recentTransactions(history, timeWindowHours, NowMs),
                        result |-> calculateVelocityRisk(history, timeWindowHours, NowMs)]
        /\ UNCHANGED <<transaction, call, transactions, batch, history, geo, db, adminDashboard, auditLogs>>

NextVelocity == RecordTransaction \/ Velocity

SpecVelocity == InitVelocity /\ [][NextVelocity]_vars

(***************************************************************************)
(* checkGeographicAnomaly                                                  *)
(* Its result is the fraction num / den with den > 0.                      *)
(***************************************************************************)
Delhi  == <<286, 772>>
Rohini == <<287, 772>>
Jaipur == <<269, 758>>
Mumbai == <<191, 729>>
Equator == <<0, 770>>
Places == {Delhi, Rohini, Jaipur, Mumbai, Equator}

\* lines 194-203 (haversine, R = 6371), tabulated to the kilometre for Places
calculateDistance(lat1, lng1, lat2, lng2) ==
    LET pair == {<<lat1, lng1>>, <<lat2, lng2>>}
    IN  CASE Cardinality(pair) = 1   -> 0
          [] pair = {Delhi, Rohini}  -> 11
          [] pair = {Delhi, Jaipur}  -> 234
          [] pair = {Delhi, Mumbai}  -> 1143
          [] pair = {Rohini, Jaipur} -> 243
          [] pair = {Rohini, Mumbai} -> 1153
          [] pair = {Jaipur, Mumbai} -> 917
          [] pair = {Delhi, Equator}  -> 3180
          [] pair = {Rohini, Equator} -> 3191
          [] pair = {Jaipur, Equator} -> 2994
          [] pair = {Mumbai, Equator} -> 2170

Fraction(num, den) == [num |-> num, den |-> den]

\* lines 180-191, from the distance on: timeDiff is in milliseconds, so
\* maxPossibleDistance = 100 * timeDiff / 3600000 = timeDiff / 36000 km, and
\* distance / maxPossibleDistance - 1 = (36000 * distance - timeDiff) / timeDiff.
\* With timeDiff = 0 the quotient is Infinity and Math.min gives 0.9; with
\* timeDiff < 0 the quotient is negative and Math.min returns it.
anomalyOf(distance, timeDiff) ==
    IF 36000 * distance > timeDiff
    THEN IF timeDiff = 0 THEN Fraction(9, 10)
         ELSE IF timeDiff < 0 THEN Fraction(0 - (36000 * distance - timeDiff), 0 - timeDiff)
         ELSE IF 10 * (36000 * distance - timeDiff) < 9 * timeDiff
              THEN Fraction(36000 * distance - timeDiff, timeDiff)
              ELSE Fraction(9, 10)
    ELSE Fraction(0, 1)

\* checkGeographicAnomaly reading the first entry of the history
checkGeographicAnomalyFirst(currentLat, currentLng, previousTransactions, now) ==
    IF Len(previousTransactions) = 0 THEN Fraction(0, 1)
    ELSE LET lastTransaction == previousTransactions[1]
         IN  IF ~Truthy(lastTransaction, "sender_latitude")
                \/ ~Truthy(lastTransaction, "sender_longitude")
             THEN Fraction(0, 1)
             ELSE anomalyOf(
                      calculateDistance(currentLat, currentLng,
                          lastTransaction.sender_latitude, lastTransaction.sender_longitude),
                      now - (IF "created_at" \in DOMAIN lastTransaction
                             THEN lastTransaction.created_at ELSE 0))

\* lines 168-192; now is the reading of new Date() at line 180, and
\* new Date(lastTransaction.created_at || 0) is the epoch when created_at is absent
checkGeographicAnomaly(currentLat, currentLng, previousTransactions, now) ==
    IF Len(previousTransactions) = 0 THEN Fraction(0, 1)
    ELSE LET lastTransaction == previousTransactions[Len(previousTransactions)]
         IN  IF ~Truthy(lastTransaction, "sender_latitude")
                \/ ~Truthy(lastTransaction, "sender_longitude")
             THEN Fraction(0, 1)
             ELSE anomalyOf(
                      calculateDistance(currentLat, currentLng,
                          lastTransaction.sender_latitude, lastTransaction.sender_longitude),
                      now - (IF "created_at" \in DOMAIN lastTransaction
                             THEN lastTransaction.created_at ELSE 0))

\* where a past transaction was sent from: nowhere known, Delhi, Mumbai, the
\* equator (latitude 0), a latitude alone
GeoCoordinates ==
    { <<>>,
      [sender_latitude |-> Delhi[1],  sender_longitude |-> Delhi[2]],
      [sender_latitude |-> Mumbai[1], sender_longitude |-> Mumbai[2]],
      [sender_latitude |-> Equator[1], sender_longitude |-> Equator[2]],
      [sender_latitude |-> Delhi[1]] }

\* when it was created: unknown, a day ago, two hours ago, an hour ago, at the
\* current instant, an hour ahead of the clock
GeoCreated ==
    { <<>> } \cup
    { [created_at |-> NowMs + h * HourMs] : h \in {-24, -2, -1, 0, 1} }

GeoPool == { Merge(Merge([amount |-> 1000], c), t) : c \in GeoCoordinates, t \in GeoCreated }

CurrentLocations == {Delhi, Rohini, Jaipur}

MaxGeoHistory == 2

InitGeo ==
    /\ transaction = <<>>
    /\ call = None
    /\ transactions = <<>>
    /\ batch = None
    /\ history \in SeqsUpTo(GeoPool, MaxGeoHistory)
    /\ velocity = None
    /\ geo = None
    /\ InitWorkflowVars

\* checkGeographicAnomaly(currentLat, currentLng, history)
GeographicAnomaly ==
    \E current \in CurrentLocations :
        /\ ~geo.done
        /\ geo' = [done |-> TRUE, currentLat |-> current[1], currentLng |-> current[2],
                   now |-> NowMs,
                   result |-> checkGeographicAnomaly(current[1], current[2], history, NowMs)]
        /\ UNCHANGED <<transaction, call, transactions, batch, history, velocity, db, adminDashboard, auditLogs>>

NextGeo == GeographicAnomaly

SpecGeo == InitGeo /\ [][NextGeo]_vars

(***************************************************************************)
(* The four operations called, in any order, on inputs held by one caller  *)
(***************************************************************************)
CallerTransactions ==
    << Tx(600000, "RTGS", Beneficiary(NameUpper, AcctPlain, PhoneMobile, IfscBank, AcctOther), <<>>),
       Tx(50001, "IMPS", Beneficiary(NameMixed, AcctPlain, PhoneMobile, IfscBank, AcctPlain),
          [sender_latitude |-> 280, sender_longitude |-> 770]) >>

CallerHistories ==
    { << [amount |-> 1000, sender_latitude |-> Mumbai[1], sender_longitude |-> Mumbai[2],
          created_at |-> NowMs - 2 * HourMs],
         [amount |-> 600000, sender_latitude |-> Delhi[1], sender_longitude |-> Delhi[2],
          created_at |-> NowMs - HourMs] >>,
      << [amount |-> 5000001], [amount |-> 1000, created_at |-> NowMs - 25 * HourMs] >> }

InitCalls ==
    /\ transaction = CallerTransactions[1]
    /\ call = None
    /\ transactions = CallerTransactions
    /\ batch = None
    /\ history \in CallerHistories
    /\ velocity = None
    /\ geo = None
    /\ InitWorkflowVars

NextCalls == Score \/ ProcessBatch \/ Velocity \/ GeographicAnomaly

SpecCalls == InitCalls /\ [][NextCalls]_vars

(***************************************************************************)
(* The application: the submission form, the table public.transactions     *)
(* with its insert trigger, and the admin dashboard                        *)
(***************************************************************************)
\* a < b: false when either side is NaN
Lt(a, b) == Gt(b, a)

DigitValue(c) == CHOOSE n \in 0..9 : ToString(n) = c

\* parseFloat of the text of the amount field (whole rupees: no sign, no
\* fraction): the leading run of digits gives the value, a text that does not
\* start with a digit gives NaN
\* the number written by the first n characters of s, all digits
RECURSIVE DigitsValue(_, _)
DigitsValue(s, n) ==
    IF n = 0 THEN 0 ELSE 10 * DigitsValue(s, n - 1) + DigitValue(s[n])

\* the length of the longest prefix of s made of digits
LeadingDigits(s) ==
    CHOOSE k \in 0..Len(s) :
        /\ \A i \in 1..k : s[i] \in Digit
        /\ k < Len(s) => s[k + 1] \notin Digit

ParseFloat(s) ==
    IF LeadingDigits(s) = 0 THEN NaN ELSE DigitsValue(s, LeadingDigits(s))

\* /^[A-Z]{4}0[A-Z0-9]{6}$/
IsIfscCode(s) ==
    /\ Len(s) = 11
    /\ \A i \in 1..4 : s[i] \in Upper
    /\ s[5] = "0"
    /\ \A i \in 6..11 : s[i] \in Upper \cup Digit

\* /^\d{9,18}$/
IsAccountNumber(s) ==
    /\ Len(s) \in 9..18
    /\ \A i \in 1..Len(s) : s[i] \in Digit

\* Index.validateTransaction: the set of errors of the form data
validateTransaction(formData) ==
    LET amount == ParseFloat(formData.amount)
    IN  (IF formData.channel = "NEFT" /\ (Lt(amount, 1) \/ Gt(amount, 1000000))
         THEN {"NEFT transactions must be between 1 and 10,00,000"} ELSE {})
        \cup (IF formData.channel = "RTGS" /\ Lt(amount, 200000)
              THEN {"RTGS transactions must be minimum 2,00,000"} ELSE {})
        \cup (IF formData.channel = "UPI" /\ Gt(amount, 100000)
              THEN {"UPI transactions cannot exceed 1,00,000"} ELSE {})
        \cup (IF ~IsIfscCode(formData.ifsc) THEN {"Invalid IFSC code format"} ELSE {})
        \cup (IF ~IsMobileNumber(formData.beneficiaryPhone)
              THEN {"Invalid phone number format"} ELSE {})
        \cup (IF ~IsAccountNumber(formData.beneficiaryAccount)
              THEN {"Account number must be 9-18 digits"} ELSE {})

\* the object handleSubmit passes to insert (location?.lat and location?.lng
\* are left out when the position is not known)
InsertedObject(formData, location) ==
    Merge([amount              |-> ParseFloat(formData.amount),
           channel             |-> formData.channel,
           beneficiary_name    |-> formData.beneficiary,
           beneficiary_account |-> formData.beneficiaryAccount,
           beneficiary_phone   |-> formData.beneficiaryPhone,
           beneficiary_ifsc    |-> formData.ifsc,
           sender_account      |-> formData.senderAccount],
          location)

\* the column defaults of CREATE TABLE public.transactions; the id is the
\* position of the row in the table
ColumnDefaults(id) ==
    [id |-> id, risk_score |-> 0, anomaly_score |-> 0, risk_level |-> "low",
     fraud_probability |-> 0, status |-> "pending", requires_review |-> TRUE]

\* the NOT NULL and CHECK constraints of the columns the form fills (NaN
\* travels as null)
SatisfiesConstraints(row) ==
    /\ ~IsNaN(row.amount)
    /\ row.channel \in {"NEFT", "RTGS", "UPI"}

\* the trigger function auto_approve_low_risk, BEFORE INSERT FOR EACH ROW
auto_approve_low_risk(new) ==
    IF new.risk_level = "low" /\ new.amount < 50000
    THEN [new EXCEPT !.status = "auto_approved", !.requires_review = FALSE]
    ELSE new

\* the row an accepted insert stores
InsertedRow(object, id) == auto_approve_low_risk(Merge(ColumnDefaults(id), object))

AmountTexts ==
    { <<>>, <<"4","0","0","0","0">>, <<"5","0","0","0","0">>, <<"2","5","0","0","0","0">> }

\* what users type: every amount on every channel, with a well-formed and a
\* malformed beneficiary phone
FormPool ==
    { [amount |-> a, channel |-> c, beneficiary |-> NameMixed,
       beneficiaryAccount |-> AcctPlain, beneficiaryPhone |-> ph,
       ifsc |-> IfscBank, senderAccount |-> AcctOther] :
        a \in AmountTexts, c \in {"NEFT", "RTGS", "UPI"}, ph \in {PhoneMobile, PhoneOther} }

\* the position the browser reported, if any
FormLocations == { <<>>, [sender_latitude |-> 286, sender_longitude |-> 772] }

MaxSubmissions == 2

\* Index.handleSubmit on form data of forms and a position of locations, for
\* tables of up to max rows: nothing is sent when validateTransaction reports
\* an error; a rejected insert leaves the table as it was
handleSubmit(forms, locations, max) ==
    \E formData \in forms, location \in locations :
        /\ Len(db) < max
        /\ validateTransaction(formData) = {}
        /\ SatisfiesConstraints(InsertedObject(formData, location))
        /\ db' = Append(db, InsertedRow(InsertedObject(formData, location), Len(db) + 1))
        /\ UNCHANGED <<scorerVars, adminDashboard, auditLogs>>

Submit == handleSubmit(FormPool, FormLocations, MaxSubmissions)

Reverse(seq) == [i \in 1..Len(seq) |-> seq[Len(seq) + 1 - i]]

RequiresReview(row) == row.requires_review

\* select('*').eq('requires_review', true).order('created_at', { ascending: false })
ReviewQueue(table) == Reverse(SelectSeq(table, RequiresReview))

\* processedTransactions: a row whose risk_score is falsy is analysed and the
\* analysis spread over it; seams[i] is the clock reading and the draws of the
\* call for the i-th row
processedTransactions(data, seams) ==
    [i \in 1..Len(data) |->
        IF data[i].risk_score = 0 THEN Merge(data[i], analyse(data[i], seams[i]))
        ELSE data[i]]

\* the stats computed by loadTransactions
statsOf(list) ==
    LET IsHigh(tx)     == tx.risk_level = "high"
        IsApproved(tx) == tx.status = "approved"
        IsRejected(tx) == tx.status = "rejected"
        IsPending(tx)  == tx.status = "pending"
    IN  [total    |-> Len(list),
         flagged  |-> Len(SelectSeq(list, IsHigh)),
         approved |-> Len(SelectSeq(list, IsApproved)),
         rejected |-> Len(SelectSeq(list, IsRejected)),
         pending  |-> Len(SelectSeq(list, IsPending))]

\* select('*').order('created_at', { ascending: false }).limit(10)
LatestAuditLogs(table) == SubSeq(Reverse(table), 1, Min(10, Len(table)))

\* what loadTransactions and loadAuditLogs leave in the component for the
\* selected rows data and the audit table logs: setTransactions, setStats,
\* setIsLoading(false), setAuditLogs
LoadedDashboard(data, seams, logs) ==
    CHOOSE state \in { [transactions |-> list, stats |-> statsOf(list), isLoading |-> FALSE,
                         auditLogs |-> LatestAuditLogs(logs)] :
                         list \in {processedTransactions(data, seams)} } : TRUE

\* The dashboard of admin is opened (or reloaded): the component starts from
\* its defaults and the mount effect runs loadTransactions and loadAuditLogs;
\* the clock readings and draws of the scorer calls come from seamPool
mountDashboard(admin, seamPool) ==
    \E data \in {ReviewQueue(db)} :
        \E seams \in [1..Len(data) -> seamPool] :
            \E loaded \in {LoadedDashboard(data, seams, auditLogs)} :
                /\ adminDashboard' =
                       [adminDashboard EXCEPT ![admin] = Merge(NoDashboard, loaded)]
                /\ UNCHANGED <<scorerVars, db, auditLogs>>

LoadTransactions(admin) == mountDashboard(admin, BatchSeams)

InitWorkflow ==
    /\ transaction = <<>>
    /\ call = None
    /\ transactions = <<>>
    /\ batch = None
    /\ history = <<>>
    /\ velocity = None
    /\ geo = None
    /\ InitWorkflowVars

NextWorkflow == Submit \/ \E admin \in Admins : LoadTransactions(admin)

SpecWorkflow == InitWorkflow /\ [][NextWorkflow]_vars

\* every open dashboard keeps being reloaded (on mount and after each action)
SpecWorkflowFair ==
    SpecWorkflow /\ \A admin \in Admins : WF_vars(LoadTransactions(admin))

(***************************************************************************)
(* The review of a transaction in the admin dashboard                      *)
(***************************************************************************)
\* a reading of the reason that leaves the text as it is
trimNothing(text) == text

\* String.prototype.trim: the text without its leading and trailing whitespace
RECURSIVE trim(_)
trim(text) ==
    IF text = <<>> THEN <<>>
    ELSE IF text[1] \in Whitespace THEN trim(Tail(text))
    ELSE IF text[Len(text)] \in Whitespace THEN trim(SubSeq(text, 1, Len(text) - 1))
    ELSE text

\* what an administrator types as the reason: nothing, blanks only, a
\* reason with blanks around it
Reasons == { <<>>, <<" ", " ">>, <<" ", "o", "k", " ">> }

IsSelected(admin) == adminDashboard[admin].selectedTransaction # null

\* the clock reading and the draws of the scorer calls in the runs with reviews
ReviewSeams == { [hour |-> 12, dayOfWeek |-> 3, random1 |-> 540, random2 |-> 540] }

OpenDashboard(admin) == mountDashboard(admin, ReviewSeams)

\* the Review button of a row of the list, shown when its status is pending
SelectTransaction(admin) ==
    \E i \in 1..Len(adminDashboard[admin].transactions) :
        /\ adminDashboard[admin].transactions[i].status = "pending"
        /\ adminDashboard' =
               [adminDashboard EXCEPT
                   ![admin].selectedTransaction = adminDashboard[admin].transactions[i]]
        /\ UNCHANGED <<scorerVars, db, auditLogs>>

\* the reason text area of the review modal
SetReviewReason(admin) ==
    \E text \in Reasons :
        /\ IsSelected(admin)
        /\ adminDashboard' = [adminDashboard EXCEPT ![admin].reviewReason = text]
        /\ UNCHANGED <<scorerVars, db, auditLogs>>

\* the Cancel button of the review modal
CancelReview(admin) ==
    /\ IsSelected(admin)
    /\ adminDashboard' = [adminDashboard EXCEPT ![admin].selectedTransaction = null,
                                                ![admin].reviewReason = <<>>]
    /\ UNCHANGED <<scorerVars, db, auditLogs>>

newStatusOf(action) == IF action = "approve" THEN "approved" ELSE "rejected"

\* `Transaction ${action}ed successfully`
SuccessToast(action) ==
    IF action = "approve" THEN "Transaction approveed successfully"
    ELSE "Transaction rejected successfully"

\* `Failed to ${action} transaction`
FailureToast(action) ==
    IF action = "approve" THEN "Failed to approve transaction"
    ELSE "Failed to reject transaction"

ReasonToast == "Please provide a reason for this action"

\* an update that sets the status and leaves requires_review as it is
UpdatedTableStatusOnly(table, id, newStatus) ==
    [i \in 1..Len(table) |->
        IF table[i].id = id THEN [table[i] EXCEPT !.status = newStatus] ELSE table[i]]

\* update({ status, requires_review: false }).eq('id', id)
UpdatedTable(table, id, newStatus) ==
    [i \in 1..Len(table) |->
        IF table[i].id = id
        THEN [table[i] EXCEPT !.status = newStatus, !.requires_review = FALSE]
        ELSE table[i]]

\* the row handleTransactionAction inserts into audit_logs
AuditRow(tx, action, reason) ==
    [transaction_id |-> tx.id,
     action         |-> IF action = "approve" THEN "transaction_approve" ELSE "transaction_reject",
     old_status     |-> tx.status,
     new_status     |-> newStatusOf(action),
     reason         |-> reason]

\* what the two requests of handleTransactionAction can do: both succeed, the
\* update fails, the update succeeds and the insert into audit_logs fails
Outcomes == {"ok", "updateError", "auditError"}

\* handleTransactionAction(selectedTransaction, action) without a reason
RefuseWithoutReason(admin) ==
    /\ adminDashboard' = [adminDashboard EXCEPT ![admin].toast = ReasonToast]
    /\ UNCHANGED <<scorerVars, db, auditLogs>>

\* the update is refused: the catch block reports it
FailOnUpdate(admin, action) ==
    /\ adminDashboard' = [adminDashboard EXCEPT ![admin].toast = FailureToast(action)]
    /\ UNCHANGED <<scorerVars, db, auditLogs>>

\* the update is done and the insert into audit_logs is refused
FailOnAudit(admin, action) ==
    /\ db' = UpdatedTable(db, adminDashboard[admin].selectedTransaction.id, newStatusOf(action))
    /\ adminDashboard' = [adminDashboard EXCEPT ![admin].toast = FailureToast(action)]
    /\ UNCHANGED <<scorerVars, auditLogs>>

\* both requests succeed: the modal is closed and both lists are loaded again
Decide(admin, action) ==
    \E table \in {UpdatedTable(db, adminDashboard[admin].selectedTransaction.id,
                               newStatusOf(action))} :
      \E logs \in {Append(auditLogs, AuditRow(adminDashboard[admin].selectedTransaction, action,
                                              adminDashboard[admin].reviewReason))} :
        \E data \in {ReviewQueue(table)} :
          \E seams \in [1..Len(data) -> ReviewSeams] :
            \E loaded \in {LoadedDashboard(data, seams, logs)} :
                /\ db' = table
                /\ auditLogs' = logs
                /\ adminDashboard' =
                       [adminDashboard EXCEPT ![admin] =
                           Merge(adminDashboard[admin],
                                 Merge(loaded, [selectedTransaction |-> null,
                                                reviewReason |-> <<>>,
                                                toast |-> SuccessToast(action)]))]
                /\ UNCHANGED scorerVars

\* AdminDashboard.handleTransactionAction(selectedTransaction, action): the
\* Approve and Reject buttons of the review modal
HandleTransactionAction(admin) ==
    \E action \in {"approve", "reject"}, outcome \in Outcomes :
        /\ IsSelected(admin)
        /\ IF trim(adminDashboard[admin].reviewReason) = <<>>
           THEN RefuseWithoutReason(admin)
           ELSE CASE outcome = "updateError" -> FailOnUpdate(admin, action)
                  [] outcome = "auditError"  -> FailOnAudit(admin, action)
                  [] outcome = "ok"          -> Decide(admin, action)

\* what users type in the runs with reviews: an amount the trigger
\* auto-approves, the smallest one it leaves pending, and a form without an
\* amount
ReviewFormPool ==
    { [amount |-> a, channel |-> "NEFT", beneficiary |-> NameMixed,
       beneficiaryAccount |-> AcctPlain, beneficiaryPhone |-> PhoneMobile,
       ifsc |-> IfscBank, senderAccount |-> AcctOther] :
        a \in { <<>>, <<"4","0","0","0","0">>, <<"5","0","0","0","0">> } }

MaxReviewed == 1

SubmitForReview == handleSubmit(ReviewFormPool, {<<>>}, MaxReviewed)

NextReview ==
    \/ SubmitForReview
    \/ \E admin \in Admins :
          \/ OpenDashboard(admin)
          \/ SelectTransaction(admin)
          \/ SetReviewReason(admin)
          \/ CancelReview(admin)
          \/ HandleTransactionAction(admin)

SpecReview == InitWorkflow /\ [][NextReview]_vars

(***************************************************************************)
(* Properties of advancedFraudDetection (under SpecScore)                  *)
(***************************************************************************)
UnitRange == 0..10000

\* C1: for every transaction with a positive amount, every clock reading and
\* every pair of draws, the returned risk_score, anomaly_score and
\* fraud_probability lie in [0, 1].
C1_ScoresInUnitRange ==
    call.done =>
        /\ call.result.risk_score \in UnitRange
        /\ call.result.anomaly_score \in UnitRange
        /\ call.result.fraud_probability \in UnitRange

\* C2: risk_level is "high" if and only if the clamped, unrounded risk score
\* exceeds 0.7 or the clamped, unrounded anomaly score exceeds 0.8.
C2_HighIffUnroundedAboveThreshold ==
    call.done =>
        (call.result.risk_level = "high"
            <=> (Gt(call.riskScore, 7000) \/ Gt(call.anomalyScore, 8000)))

\* a call whose risk score is above 0.7 only before the rounding: 0.7 < riskScore < 0.705
C2_Witness ==
    /\ call.done
    /\ Gt(call.riskScore, 7000)
    /\ call.result.risk_score = 7000
    /\ ~Gt(call.anomalyScore, 8000)
    /\ call.result.risk_level = "high"

\* C3: when sender_account equals beneficiary_account, whatever the channel,
\* amount, location, clock and draws, risk_level is "high" and requires_review
\* is true.
C3_SelfTransferIsHigh ==
    (call.done /\ transaction.sender_account = transaction.beneficiary_account) =>
        /\ call.result.risk_level = "high"
        /\ call.result.requires_review

\* C4: requires_review is true whenever risk_level is "high" or "medium"; when
\* risk_level is "low" it is true exactly when amount > 50000; it is the
\* function (riskScore > 0.4 or anomalyScore > 0.5 or amount > 50000) of the
\* unrounded scores and the amount.
C4_RequiresReview ==
    call.done =>
        /\ call.result.risk_level \in {"high", "medium"} => call.result.requires_review
        /\ call.result.risk_level = "low" =>
              (call.result.requires_review <=> transaction.amount > 50000)
        /\ call.result.requires_review <=>
              (Gt(call.riskScore, 4000) \/ Gt(call.anomalyScore, 5000)
               \/ transaction.amount > 50000)

\* a low-risk call whose review is mandated by the amount alone
C4_Witness ==
    /\ call.done
    /\ call.result.risk_level = "low"
    /\ transaction.amount > 50000
    /\ call.result.requires_review

(***************************************************************************)
(* Properties of processBatchTransactions (under SpecBatch)                *)
(***************************************************************************)
AnalysisFields ==
    {"risk_score", "anomaly_score", "risk_level", "fraud_probability", "requires_review"}

\* C5: the result has exactly as many elements as the input; element i
\* carries every field of input transaction i unchanged, and its analysis is
\* the one advancedFraudDetection gives for transaction i alone under the
\* seams of the i-th call; the empty list gives the empty list.
C5_BatchIsElementwise ==
    batch.done =>
        /\ Len(batch.result) = Len(transactions)
        /\ transactions = <<>> => batch.result = <<>>
        /\ \A i \in 1..Len(transactions) :
              /\ DOMAIN batch.result[i] = DOMAIN transactions[i] \cup AnalysisFields
              /\ \A f \in DOMAIN transactions[i] : batch.result[i][f] = transactions[i][f]
              /\ \A f \in AnalysisFields :
                    batch.result[i][f] = analyse(transactions[i], batch.seams[i])[f]

\* a batch of two different transactions analysed under the same seams, with
\* different verdicts
C5_Witness ==
    /\ batch.done
    /\ Len(transactions) = 2
    /\ Len(batch.result) = 2
    /\ batch.seams[1] = batch.seams[2]
    /\ batch.result[1].amount # batch.result[2].amount
    /\ batch.result[1].risk_level # batch.result[2].risk_level

(***************************************************************************)
(* Properties of calculateVelocityRisk (under SpecVelocity)                *)
(***************************************************************************)
\* the entries of the history that fall inside the window of the last call
InsideWindow ==
    { i \in 1..Len(history) :
        velocity.now - txTime(history[i], velocity.now) < velocity.timeWindowHours * HourMs }

RECURSIVE SumOver(_)
SumOver(I) ==
    IF I = {} THEN 0
    ELSE LET i == CHOOSE j \in I : TRUE IN history[i].amount + SumOver(I \ {i})

\* C6: for every history of positive amounts and every window length the
\* result lies in [0, 0.8].
C6_VelocityInRange ==
    velocity.done => velocity.result \in 0..8000000

\* a call that returns the top of the range
C6_Witness ==
    /\ velocity.done
    /\ velocity.result = 8000000

\* C7: with more than 10 transactions inside the window the result is exactly
\* 0.8, whatever their amounts.
C7_ManyTransactionsGiveTop ==
    (velocity.done /\ Cardinality(InsideWindow) > 10) => velocity.result = 8000000

\* eleven transactions inside the window whose amounts also pass the 5,000,000 rule
C7_Witness ==
    /\ velocity.done
    /\ Cardinality(InsideWindow) > 10
    /\ SumOver(InsideWindow) > 5000000
    /\ velocity.result = 8000000

\* C8: with at most 10 transactions inside the window the result is 0.7 if
\* their sum exceeds 5,000,000, else 0.6 if they are more than 5 and their sum
\* exceeds 1,000,000, else min(0.5, count * 0.1 + sum / 10,000,000); an empty
\* history gives 0.
C8_VelocityRules ==
    velocity.done =>
        LET count == Cardinality(InsideWindow)
            sum   == SumOver(InsideWindow)
        IN  /\ count <= 10 =>
                  velocity.result =
                      IF sum > 5000000 THEN 7000000
                      ELSE IF count > 5 /\ sum > 1000000 THEN 6000000
                      ELSE Min(5000000, count * 1000000 + sum)
            /\ history = <<>> => velocity.result = 0

\* six to ten transactions inside the window that pass both summed-amount rules
C8_Witness ==
    /\ velocity.done
    /\ Cardinality(InsideWindow) \in 6..10
    /\ SumOver(InsideWindow) > 5000000
    /\ velocity.result = 7000000

(***************************************************************************)
(* Properties of checkGeographicAnomaly (under SpecGeo)                    *)
(***************************************************************************)
\* C9: for every current location and every history, whatever the timestamp
\* of its most recent entry, the result lies in [0, 0.9].
C9_GeoInRange ==
    geo.done =>
        /\ geo.result.num >= 0
        /\ 10 * geo.result.num <= 9 * geo.result.den

\* C10: the result is 0 when the history is empty or its last entry lacks a
\* latitude or a longitude, and it is the result for the history made of the
\* last entry alone: the entries before the last one do not influence it.
C10_GeoReadsLastEntryOnly ==
    geo.done =>
        /\ history = <<>> => geo.result = Fraction(0, 1)
        /\ history # <<>> =>
              LET last == history[Len(history)]
              IN  /\ ("sender_latitude" \notin DOMAIN last
                      \/ "sender_longitude" \notin DOMAIN last)
                        => geo.result = Fraction(0, 1)
                  /\ geo.result =
                        checkGeographicAnomaly(geo.currentLat, geo.currentLng, <<last>>, geo.now)

\* an implausible jump recorded before a last entry that has no coordinates
C10_Witness ==
    /\ geo.done
    /\ Len(history) = 2
    /\ checkGeographicAnomaly(geo.currentLat, geo.currentLng, <<history[1]>>, geo.now).num > 0
    /\ DOMAIN history[2] = {"amount", "created_at"}
    /\ geo.result = Fraction(0, 1)

\* C11: when the last entry of the history has both coordinates, the result is
\* min(0.9, distance / plausible - 1) if distance > plausible and 0 otherwise,
\* where plausible = 100 km/h * the hours elapsed since that entry.
C11_GeoFormula ==
    (geo.done /\ history # <<>>) =>
        LET last == history[Len(history)]
        IN  {"sender_latitude", "sender_longitude"} \subseteq DOMAIN last =>
                geo.result =
                    anomalyOf(
                        calculateDistance(geo.currentLat, geo.currentLng,
                                          last.sender_latitude, last.sender_longitude),
                        geo.now - (IF "created_at" \in DOMAIN last THEN last.created_at ELSE 0))

(***************************************************************************)
(* Properties of the four operations together (under SpecCalls)            *)
(***************************************************************************)
\* C13: none of the four operations modifies its input: across every call
\* the transaction, the list of transactions and the history have the same
\* length, order and field values as before it.
C13_InputsNotModified ==
    [][ (call' # call \/ batch' # batch \/ velocity' # velocity \/ geo' # geo)
          => /\ transaction' = transaction
             /\ transactions' = transactions
             /\ history' = history ]_vars

\* all four operations have returned, the batch runner with elements that
\* carry an analysis its input elements do not have
C13_Witness ==
    /\ call.done /\ batch.done /\ velocity.done /\ geo.done
    /\ Len(history) = 2
    /\ Len(batch.result) = 2
    /\ "risk_level" \in DOMAIN batch.result[1]
    /\ "risk_level" \notin DOMAIN transactions[1]
    /\ velocity.result > 0

(***************************************************************************)
(* Further properties of advancedFraudDetection (under SpecScore)          *)
(***************************************************************************)
\* C14: fraud_probability is 0.6 * riskScore + 0.4 * anomalyScore (the clamped,
\* unrounded scores) rounded to two decimals, half up; the weights sum to 1,
\* so equal scores give their common rounded value.
C14_FraudProbability ==
    call.done =>
        LET r  == call.riskScore
            a  == call.anomalyScore
            fp == call.result.fraud_probability
        IN  IF IsNaN(r) \/ IsNaN(a) THEN IsNaN(fp)
            ELSE /\ fp % 100 = 0
                 /\ 10 * fp - 500 <= 6 * r + 4 * a
                 /\ 6 * r + 4 * a < 10 * fp + 500
                 /\ (r = a => fp = call.result.risk_score)

\* a call with different scores whose weighted sum is not a whole hundredth
\* and whose equal-weight mean rounds to another value
C14_Witness ==
    /\ call.done
    /\ ~IsNaN(call.riskScore)
    /\ call.riskScore # call.anomalyScore
    /\ (6 * call.riskScore + 4 * call.anomalyScore) % 1000 # 0
    /\ call.result.fraud_probability
         # Round2((call.riskScore + call.anomalyScore) \div 2)

\* C15: risk_level is one of low, medium, high; when it is not high it is
\* medium exactly when riskScore > 0.4 or anomalyScore > 0.5 (unrounded), and
\* low otherwise.
C15_MediumIffAboveThreshold ==
    call.done =>
        LET level  == call.result.risk_level
            medium == Gt(call.riskScore, 4000) \/ Gt(call.anomalyScore, 5000)
        IN  /\ level \in {"low", "medium", "high"}
            /\ level # "high" => /\ level = "medium" <=> medium
                                 /\ level = "low" <=> ~medium

\* a call whose risk score is exactly 0.4 with a small anomaly score: low
C15_Witness ==
    /\ call.done
    /\ call.riskScore = 4000
    /\ call.anomalyScore < 5000
    /\ call.result.risk_level = "low"

\* an account string made of one decimal digit repeated 9 or more times
IsSingleDigitRepeated(s) ==
    Len(s) >= 9 /\ s[1] \in Digit /\ \A i \in 1..Len(s) : s[i] = s[1]

\* C16: the repeated-digit rule adds 0.4 to the anomaly score exactly when
\* beneficiary_account is a single digit repeated 9 or more times, and
\* nothing for any other account string.
C16_RepeatedDigitOnly ==
    call.done =>
        LET without == [transaction EXCEPT !.beneficiary_account = <<>>]
            added   == rawAnomalyScore(transaction, call.random2)
                         - rawAnomalyScore(without, call.random2)
        IN  added = IF IsSingleDigitRepeated(transaction.beneficiary_account)
                    THEN 4000 ELSE 0

\* C20: the clock hour adds 0.3 to the risk score for hours 22, 23, 0, 1, 2,
\* 0.2 for hours 3 to 5 and nothing for hours 6 to 21.
C20_TimeOfDayWeights ==
    (call.done /\ ~IsNaN(call.riskScore)) =>
        LET added == rawRiskScore(transaction, call.hour, call.dayOfWeek, call.random1)
                       - rawRiskScore(transaction, 12, call.dayOfWeek, call.random1)
        IN  added = IF call.hour >= 22 \/ call.hour <= 2 THEN 3000
                    ELSE IF call.hour <= 5 THEN 2000
                    ELSE 0

(***************************************************************************)
(* Further properties of calculateVelocityRisk (under SpecVelocity)        *)
(***************************************************************************)
HasCreatedAt(tx) == "created_at" \in DOMAIN tx
NoCreatedAt(tx) == "created_at" \notin DOMAIN tx

\* C18: of the entries that carry a creation timestamp, exactly those with
\* now - window < created_at <= now are counted; an entry exactly one window
\* old, older, or dated after the current instant is not.
C18_WindowEndsNow ==
    velocity.done =>
        LET timeWindow == velocity.timeWindowHours * HourMs
            InClaimedWindow(tx) ==
                /\ HasCreatedAt(tx)
                /\ velocity.now - timeWindow < tx.created_at
                /\ tx.created_at <= velocity.now
        IN  SelectSeq(velocity.recent, HasCreatedAt) = SelectSeq(history, InClaimedWindow)

\* C19 as stated: every entry without created_at is counted, whatever the
\* window length.
C19_AbsentAlwaysCounted ==
    velocity.done =>
        SelectSeq(velocity.recent, NoCreatedAt) = SelectSeq(history, NoCreatedAt)

\* C19: every entry without created_at is counted whenever the window length
\* is positive (it is read as created at the current instant, which a window
\* of length 0 or less does not contain).
C19_AbsentCountedInPositiveWindow ==
    velocity.done =>
        /\ velocity.timeWindowHours > 0 =>
              SelectSeq(velocity.recent, NoCreatedAt) = SelectSeq(history, NoCreatedAt)
        /\ velocity.timeWindowHours <= 0 => SelectSeq(velocity.recent, NoCreatedAt) = <<>>

\* a 24-hour call on a history with an entry without created_at, which is
\* counted, and an older dated entry, which is not
C19_Witness ==
    /\ velocity.done
    /\ velocity.timeWindowHours = 24
    /\ SelectSeq(velocity.recent, NoCreatedAt) # <<>>
    /\ Len(velocity.recent) < Len(history)

(***************************************************************************)
(* Properties of the application (under SpecWorkflowFair)                  *)
(***************************************************************************)
\* advancedFraudDetection has been computed for row id in the dashboard of admin
ScoredIn(admin, id) ==
    \E i \in 1..Len(adminDashboard[admin].transactions) :
        /\ adminDashboard[admin].transactions[i].id = id
        /\ db[id].risk_score = 0

\* C17: every transaction inserted through the submission form eventually
\* has advancedFraudDetection computed for it, the auto-approved ones included.
C17_EverySubmissionScored ==
    \A id \in 1..MaxSubmissions :
        (id <= Len(db)) ~> (\E admin \in Admins : ScoredIn(admin, id))

(***************************************************************************)
(* Properties of the single weights of advancedFraudDetection (SpecScore)  *)
(***************************************************************************)
\* a position inside the box with fractional coordinates: it adds nothing
ReferenceLocation == [sender_latitude |-> 286, sender_longitude |-> 772]

\* C21: when both coordinates are present (any numbers) the location adds 0.3
\* to the risk exactly when they are outside 6 <= lat <= 37, 68 <= lng <= 97,
\* 0.2 to the anomaly exactly when both are whole degrees, and never the
\* missing-location weight; when they are absent it adds 0.1 to the risk only.
C21_LocationWeights ==
    (call.done /\ ~IsNaN(call.riskScore)) =>
        LET reference    == Merge(transaction, ReferenceLocation)
            addedRisk    == rawRiskScore(transaction, call.hour, call.dayOfWeek, call.random1)
                              - rawRiskScore(reference, call.hour, call.dayOfWeek, call.random1)
            addedAnomaly == rawAnomalyScore(transaction, call.random2)
                              - rawAnomalyScore(reference, call.random2)
        IN  IF {"sender_latitude", "sender_longitude"} \subseteq DOMAIN transaction
            THEN LET lat == transaction.sender_latitude
                     lng == transaction.sender_longitude
                 IN  /\ addedRisk = IF 60 <= lat /\ lat <= 370 /\ 680 <= lng /\ lng <= 970
                                    THEN 0 ELSE 3000
                     /\ addedAnomaly = IF lat % 10 = 0 /\ lng % 10 = 0 THEN 2000 ELSE 0
            ELSE addedRisk = 1000 /\ addedAnomaly = 0

\* the tier the amount falls in, as ranges
AmountTier(amount) ==
    CASE amount <= 50000                        -> 0
      [] 50000 < amount /\ amount <= 100000     -> 1000
      [] 100000 < amount /\ amount <= 500000    -> 2000
      [] 500000 < amount /\ amount <= 1000000   -> 3000
      [] amount > 1000000                       -> 4000

\* C22: the amount adds to the risk score the weight of the one tier it falls
\* in (0, 0.1, 0.2, 0.3, 0.4 with bounds 50,000, 100,000, 500,000, 1,000,000,
\* each upper bound inclusive), and a smaller amount never adds more.
C22_AmountTiers ==
    (call.done /\ ~IsNaN(call.riskScore)) =>
        LET least == [transaction EXCEPT !.amount = 1]
            added == rawRiskScore(transaction, call.hour, call.dayOfWeek, call.random1)
                       - rawRiskScore(least, call.hour, call.dayOfWeek, call.random1)
                       - upiAmountRisk(transaction)
        IN  /\ added = AmountTier(transaction.amount)
            /\ \A smaller \in Amounts :
                   smaller <= transaction.amount => amountRisk(smaller) <= added

\* a call on an amount that is exactly the upper bound of its tier
C22_Witness ==
    /\ call.done /\ ~IsNaN(call.riskScore)
    /\ transaction.amount = 500000
    /\ transaction.channel = "UPI"

\* C23: the channel adds 0.1 for RTGS, 0.15 for NEFT, 0.2 for UPI and the
\* default 0.25 for every other channel string, the default being the highest.
C23_ChannelWeights ==
    call.done =>
        LET weight == channelWeight(transaction.channel)
        IN  /\ weight = CASE transaction.channel = "RTGS" -> 1000
                          [] transaction.channel = "NEFT" -> 1500
                          [] transaction.channel = "UPI"  -> 2000
                          [] OTHER                        -> 2500
            /\ \A c \in DOMAIN channelRisk : channelRisk[c] < 2500

\* C24: fraud_probability lies between the smaller and the larger of the
\* returned risk_score and anomaly_score, inclusive.
C24_ProbabilityBetweenScores ==
    call.done =>
        LET rs == call.result.risk_score
            as == call.result.anomaly_score
            fp == call.result.fraud_probability
        IN  /\ ~IsNaN(fp) /\ ~IsNaN(rs) /\ ~IsNaN(as)
            /\ Min(rs, as) <= fp
            /\ fp <= Max(rs, as)

\* C26: for a transaction the scorer rates low, the insert trigger
\* auto-approves it exactly when the scorer says it needs no review.
C26_TriggerAgreesWithScorer ==
    (call.done /\ call.result.risk_level = "low") =>
        LET new == Merge(ColumnDefaults(1), Merge(transaction, call.result))
        IN  (auto_approve_low_risk(new).status = "auto_approved")
                <=> (call.result.requires_review = FALSE)

(***************************************************************************)
(* Growth of the history (under SpecVelocity)                              *)
(***************************************************************************)
\* the transactions with a positive amount that lie in the window of the call made
InWindowEntries ==
    { k \in 1..Len(VelocityPool) :
        /\ VelocityPool[k].amount > 0
        /\ txTime(VelocityPool[k], velocity.now) <= velocity.now
        /\ velocity.now - txTime(VelocityPool[k], velocity.now)
             < velocity.timeWindowHours * HourMs }

\* the result for the history with one more entry, same instant and window
ResultAfterAppending(k) ==
    calculateVelocityRisk(Append(history, VelocityPool[k]),
                          velocity.timeWindowHours, velocity.now)

\* C25: for a fixed instant and window, appending one more in-window
\* transaction with a positive amount to the history never lowers the result.
C25_MonotoneUnderAppend ==
    velocity.done =>
        \A k \in InWindowEntries : ResultAfterAppending(k) >= velocity.result

\* a call answered by the 0.6 rule (more than 5 entries, sum above 1,000,000
\* and not above 5,000,000) that one more in-window entry lifts to the 0.7 rule
C25_Witness ==
    /\ velocity.done
    /\ velocity.result = 6000000
    /\ \E k \in InWindowEntries : ResultAfterAppending(k) = 7000000

(***************************************************************************)
(* Properties of the review workflow (under SpecReview)                    *)
(***************************************************************************)
Decided == {"approved", "rejected", "auto_approved"}

\* C27: once the status of a transaction is approved, rejected or
\* auto_approved it never changes again, under any interleaving of the
\* dashboards of the administrators.
C27_DecidedIsFinal ==
    [][ \A id \in 1..Len(db) :
            db[id].status \in Decided => db'[id].status = db[id].status ]_vars

\* C28: every transaction whose status is approved or rejected has a row in
\* audit_logs for it whose new_status is that status.
C28_DecisionsAreAudited ==
    \A id \in 1..Len(db) :
        db[id].status \in {"approved", "rejected"} =>
            \E n \in 1..Len(auditLogs) :
                /\ auditLogs[n].transaction_id = id
                /\ auditLogs[n].new_status = db[id].status

\* a text that is empty or made of whitespace only
IsBlank(text) == \A n \in 1..Len(text) : text[n] \in Whitespace

\* C29: a step in which the dashboard of an administrator, with a blank
\* review reason, reports something reports the missing reason and leaves the
\* two tables and the selected transaction as they were.
C29_BlankReasonChangesNothing ==
    [][ \A admin \in Admins :
            ( /\ IsSelected(admin)
              /\ IsBlank(adminDashboard[admin].reviewReason)
              /\ adminDashboard'[admin].toast \notin {"", adminDashboard[admin].toast} )
            => /\ adminDashboard'[admin].toast = ReasonToast
               /\ db' = db
               /\ auditLogs' = auditLogs
               /\ adminDashboard'[admin].selectedTransaction
                    = adminDashboard[admin].selectedTransaction
               /\ adminDashboard'[admin].reviewReason = adminDashboard[admin].reviewReason ]_vars

\* an administrator has pressed Approve or Reject with a reason made of
\* blanks: the missing reason is reported, the transaction is still selected
\* and still pending, nothing is audited
C29_Witness ==
    \E admin \in Admins :
        /\ adminDashboard[admin].toast = ReasonToast
        /\ adminDashboard[admin].reviewReason = <<" ", " ">>
        /\ IsSelected(admin)
        /\ db[adminDashboard[admin].selectedTransaction.id].status = "pending"
        /\ auditLogs = <<>>

\* C30: in every reachable state a transaction has requires_review = false
\* exactly when its status is not pending, so the review queue (the rows with
\* requires_review = true) holds pending transactions only.
C30_ReviewFlagIffDecided ==
    /\ \A id \in 1..Len(db) : (db[id].requires_review = FALSE) <=> (db[id].status # "pending")
    /\ \A i \in 1..Len(ReviewQueue(db)) : ReviewQueue(db)[i].status \notin Decided

\* a transaction an administrator has rejected: it is out of the review queue
C30_Witness ==
    \E id \in 1..Len(db) :
        /\ db[id].status = "rejected"
        /\ \A i \in 1..Len(ReviewQueue(db)) : ReviewQueue(db)[i].id # id
        /\ auditLogs # <<>>

====
